---- MODULE Spec2Model ----
(***************************************************************************)
(* Dialog core of the Alice <-> Todoist webhook: todoist/handler.py and    *)
(* todoist/scenes.py.  One turn of the dialog is one call of handler():    *)
(* the platform sends the recognised intents and the session state it      *)
(* keeps for the skill, the handler resolves the current scene, asks it to *)
(* move and renders the reply of the next scene or the fallback of the     *)
(* current one.                                                            *)
(*                                                                         *)
(* Python dicts are functions with a finite string DOMAIN (records); an    *)
(* absent key is a key outside DOMAIN.  A Python exception is an outcome   *)
(* of kind "raise".  Cyrillic literals of the source are transliterated.   *)
(***************************************************************************)
EXTENDS Integers, Sequences, FiniteSets, TLC

\* request, outcome: the turn handler was last called on and what came of it;
\* today: the value of date.today(); call, result: the extractor or humanizer
\* last applied on its own, and what it returned
\* inv: two invocations of handler running side by side, each with its turn,
\* its position in handler and its local variables; globals: the module-level
\* names of scenes.py the handler reads
VARIABLES request, outcome, today, call, result, inv, globals

vars == <<request, outcome, today, call, result, inv, globals>>

(***************************************************************************)
(* Bounds of the model.                                                    *)
(***************************************************************************)
\* largest persisted position the platform sends back in session state
MaxPosition == 0
\* largest number of tasks the backend answers get_tasks with
MaxTasks == 1
\* largest relative day offset of a YANDEX.DATETIME slot
MaxRelDay == 1
\* make_relative is applied to every date at most this many days from today,
\* and to the two dates FarDays away
MaxDelta == 12
FarDays == 200

(***************************************************************************)
(* dict helpers                                                            *)
(***************************************************************************)
EmptyDict == [k \in {} |-> 0]

Has(d, k) == k \in DOMAIN d

\* dict.update(other): keys of other win
DictUpdate(d, other) ==
    [k \in (DOMAIN d) \cup (DOMAIN other) |-> IF k \in DOMAIN other THEN other[k] ELSE d[k]]

\* Python's None, where the value is otherwise a scene identity or a string
None == "None"

(***************************************************************************)
(* todoist/intents.py and todoist/state.py: names imported by scenes.py    *)
(***************************************************************************)
GET_NEAREST_TASKS == "GET_NEAREST_TASKS"
CREATE_TASK == "CREATE_TASK"
\* an intent no scene of scenes.py looks at ("next task")
NEXT_TASK == "NEXT_TASK"
STATE_RESPONSE_KEY == "session_state"

(***************************************************************************)
(* datetime.date: a date is its proleptic Gregorian ordinal, as in         *)
(* date.toordinal(); year, month and day are computed from it.             *)
(***************************************************************************)
\* the years the model's dates lie in
Years == 2025..2028

IsLeap(y) == (y % 4 = 0) /\ ((y % 100 # 0) \/ (y % 400 = 0))

DaysInMonth(y, m) ==
    IF m = 2 THEN (IF IsLeap(y) THEN 29 ELSE 28)
    ELSE IF m \in {4, 6, 9, 11} THEN 30 ELSE 31

DaysBeforeYear(y) == (y - 1) * 365 + ((y - 1) \div 4) - ((y - 1) \div 100) + ((y - 1) \div 400)

RECURSIVE DaysBeforeMonth(_, _)
DaysBeforeMonth(y, m) ==
    IF m = 1 THEN 0 ELSE DaysBeforeMonth(y, m - 1) + DaysInMonth(y, m - 1)

ValidDate(y, m, d) == y \in 1..9999 /\ m \in 1..12 /\ d \in 1..DaysInMonth(y, m)

\* date(y, m, d).toordinal()
ToOrdinal(y, m, d) == DaysBeforeYear(y) + DaysBeforeMonth(y, m) + d

YearOf(n) == CHOOSE y \in Years : DaysBeforeYear(y) < n /\ n <= DaysBeforeYear(y + 1)
MonthOf(n) ==
    CHOOSE m \in 1..12 :
        LET r == n - DaysBeforeYear(YearOf(n))
        IN  DaysBeforeMonth(YearOf(n), m) < r /\ r <= DaysBeforeMonth(YearOf(n), m) + DaysInMonth(YearOf(n), m)
DayOf(n) == n - DaysBeforeYear(YearOf(n)) - DaysBeforeMonth(YearOf(n), MonthOf(n))

\* date.isoformat(): year, month and day, zero padded
IsoFormat(n) == <<YearOf(n), MonthOf(n) \div 10, MonthOf(n) % 10, DayOf(n) \div 10, DayOf(n) % 10>>

\* the values date.today() takes: the last day of a year and a day inside a year;
\* the date does not change between the reads of date.today() within one turn
TodaySet == {ToOrdinal(2026, 12, 31), ToOrdinal(2027, 6, 15)}

(***************************************************************************)
(* Results of Python calls: a value, or a raised exception.                *)
(***************************************************************************)
Ok(v) == [exc |-> "", val |-> v]
Raise(e) == [exc |-> e, val |-> None]
Raised(r) == r.exc # ""

(***************************************************************************)
(* Request: .intents is the dict of recognised intents, .session the state *)
(* the platform keeps between turns.                                       *)
(***************************************************************************)
\* d.get(k, {})
GetOrEmpty(d, k) == IF Has(d, k) THEN d[k] ELSE EmptyDict

\* Python truthiness of a slot value that is a string or None
Truthy(v) == v # None /\ v # ""

(***************************************************************************)
(* class TaskFilter(enum.Enum)                                             *)
(***************************************************************************)
\* the .value of the members TODAY and TOMORROW
TaskFilterValue == [TODAY |-> "today", TOMORROW |-> "tomorrow"]

\* from_request consulting the session before the slot of the turn
TaskFilter_from_request_session_first(req, intent_name) ==
    IF ~Has(req.intents, intent_name) THEN Raise("KeyError")
    ELSE LET slot == GetOrEmpty(GetOrEmpty(req.intents[intent_name], "slots"), "time")
             time_from_intent == IF Has(slot, "value") THEN slot.value ELSE None
             sess == GetOrEmpty(req.session, "time")
             time_from_session == IF Has(sess, "value") THEN sess.value ELSE None
             current_filter == IF Truthy(time_from_session) THEN time_from_session ELSE time_from_intent
         IN  IF current_filter = "today" THEN Ok("TODAY")
             ELSE IF current_filter = "tomorrow" THEN Ok("TOMORROW")
             ELSE Ok(None)

TaskFilter_from_request(req, intent_name) ==
    IF ~Has(req.intents, intent_name) THEN Raise("KeyError")
    ELSE LET slot == GetOrEmpty(GetOrEmpty(req.intents[intent_name], "slots"), "time")
             time_from_intent == IF Has(slot, "value") THEN slot.value ELSE None
             sess == GetOrEmpty(req.session, "time")
             time_from_session == IF Has(sess, "value") THEN sess.value ELSE None
             current_filter == IF Truthy(time_from_intent) THEN time_from_intent ELSE time_from_session
         IN  IF current_filter = "today" THEN Ok("TODAY")
             ELSE IF current_filter = "tomorrow" THEN Ok("TOMORROW")
             ELSE Ok(None)

(***************************************************************************)
(* class Time                                                              *)
(***************************************************************************)
\* the result is Ok(<<>>) for None and Ok(<<ordinal>>) for a date
Time_from_request_slot(req, intent_name, time_key, now) ==
    IF ~Has(req.intents, intent_name) THEN Raise("KeyError")
    ELSE LET time_from_intent == GetOrEmpty(GetOrEmpty(req.intents[intent_name], "slots"), time_key)
         IN  IF ~Has(time_from_intent, "type") THEN Raise("KeyError")
             ELSE IF time_from_intent.type # "YANDEX.DATETIME" THEN Ok(<<>>)
             ELSE IF ~Has(time_from_intent, "value") THEN Raise("KeyError")
             ELSE LET v == time_from_intent.value
                  IN  IF ~Has(v, "day_is_relative") THEN Raise("KeyError")
                      ELSE IF v.day_is_relative
                      THEN IF ~Has(v, "day") THEN Raise("KeyError")
                           ELSE Ok(<<now + v.day>>)
                      ELSE LET year == IF Has(v, "year") THEN v.year ELSE YearOf(now)
                               month == IF Has(v, "month") THEN v.month ELSE MonthOf(now)
                               day == IF Has(v, "day") THEN v.day ELSE DayOf(now)
                           IN  IF ValidDate(year, month, day)
                               THEN Ok(<<ToOrdinal(year, month, day)>>)
                               ELSE Raise("ValueError")

\* a string is a sequence of tokens; a digit is a one-character token
Digit(i) == <<"0", "1", "2", "3", "4", "5", "6", "7", "8", "9">>[i + 1]

\* %B under ru_RU.UTF-8 (scenes.py line 16): the month name, genitive
MonthName(m) ==
    <<"yanvarya", "fevralya", "marta", "aprelya", "maya", "iyunya",
      "iyulya", "avgusta", "sentyabrya", "oktyabrya", "noyabrya", "dekabrya">>[m]

\* strftime("%d"): the day, two digits, zero padded
Strftime_d(n) == <<Digit(DayOf(n) \div 10), Digit(DayOf(n) % 10)>>

\* strftime("%Y")
Strftime_Y(n) ==
    LET y == YearOf(n)
    IN  <<Digit(y \div 1000), Digit((y \div 100) % 10), Digit((y \div 10) % 10), Digit(y % 10)>>

\* str.lstrip("0")
RECURSIVE LStrip0(_)
LStrip0(s) == IF s # <<>> /\ Head(s) = "0" THEN LStrip0(Tail(s)) ELSE s

\* make_relative comparing against the wrong day offsets (off by one)
Time_make_relative_shifted(absolute_date, now) ==
    IF absolute_date = now THEN <<"segodnya">>
    ELSE IF absolute_date = now + 1 THEN <<"poslezavtra">>
    ELSE IF absolute_date = now - 1 THEN <<"pozavchera">>
    ELSE LStrip0(Strftime_d(absolute_date) \o <<" ", MonthName(MonthOf(absolute_date)), " ">>
                 \o Strftime_Y(absolute_date) \o <<" goda">>)

\* make_relative treating the past like the future: no year within the current year
Time_make_relative_symmetric(absolute_date, now) ==
    IF absolute_date = now THEN <<"segodnya">>
    ELSE IF absolute_date = now + 1 THEN <<"zavtra">>
    ELSE IF absolute_date = now + 2 THEN <<"poslezavtra">>
    ELSE IF absolute_date = now - 1 THEN <<"vchera">>
    ELSE IF absolute_date = now - 2 THEN <<"pozavchera">>
    ELSE IF YearOf(absolute_date) = YearOf(now)
    THEN LStrip0(Strftime_d(absolute_date) \o <<" ", MonthName(MonthOf(absolute_date))>>)
    ELSE LStrip0(Strftime_d(absolute_date) \o <<" ", MonthName(MonthOf(absolute_date)), " ">>
                 \o Strftime_Y(absolute_date) \o <<" goda">>)

Time_make_relative(absolute_date, now) ==
    IF absolute_date = now THEN <<"segodnya">>
    ELSE IF absolute_date > now
    THEN IF absolute_date = now + 1 THEN <<"zavtra">>
         ELSE IF absolute_date = now + 2 THEN <<"poslezavtra">>
         ELSE IF YearOf(absolute_date) = YearOf(now)
         THEN LStrip0(Strftime_d(absolute_date) \o <<" ", MonthName(MonthOf(absolute_date))>>)
         ELSE LStrip0(Strftime_d(absolute_date) \o <<" ", MonthName(MonthOf(absolute_date)), " ">>
                      \o Strftime_Y(absolute_date) \o <<" goda">>)
    ELSE IF absolute_date = now - 1 THEN <<"vchera">>
         ELSE IF absolute_date = now - 2 THEN <<"pozavchera">>
         ELSE LStrip0(Strftime_d(absolute_date) \o <<" ", MonthName(MonthOf(absolute_date)), " ">>
                      \o Strftime_Y(absolute_date) \o <<" goda">>)

(***************************************************************************)
(* class TaskPosition and move_to_position                                 *)
(***************************************************************************)
TaskPosition_from_request(req) ==
    LET p == GetOrEmpty(req.session, "position")
    IN  IF Has(p, "value") THEN p.value ELSE 0

move_to_position(req) == TaskPosition_from_request(req)

(***************************************************************************)
(* The classes of scenes.py.  Bases is the class statement of each class   *)
(* that is a member of the module (defined in it or imported into it).     *)
(***************************************************************************)
ModuleClasses ==
    {"ABC", "Request", "TodoistAPI", "date", "timedelta", "TaskFilter", "Time", "TaskPosition",
     "Scene", "TodoistScene", "Welcome", "TasksList", "CreateTask"}

Bases ==
    [c \in ModuleClasses |->
        CASE c = "Scene" -> {"ABC"}
          [] c = "TodoistScene" -> {"Scene"}
          [] c \in {"Welcome", "TasksList", "CreateTask"} -> {"TodoistScene"}
          [] OTHER -> {}]

\* issubclass(c, d): a class is a subclass of itself
RECURSIVE issubclass(_, _)
issubclass(c, d) == c = d \/ \E b \in Bases[c] : issubclass(b, d)

\* the methods a class statement defines, and those it declares abstract
Defines ==
    [c \in ModuleClasses |->
        CASE c = "Scene" -> {"id", "reply", "move", "handle_global_intents", "handle_local_intents",
                             "fallback", "make_response"}
          [] c = "TodoistScene" -> {"handle_global_intents"}
          [] c \in {"Welcome", "TasksList", "CreateTask"} -> {"reply", "handle_local_intents"}
          [] OTHER -> {}]

AbstractIn ==
    [c \in ModuleClasses |->
        IF c = "Scene" THEN {"reply", "handle_global_intents", "handle_local_intents"} ELSE {}]

\* the abstract methods left in class c (ABCMeta.__abstractmethods__)
RECURSIVE AbstractMethods(_)
AbstractMethods(c) ==
    AbstractIn[c] \cup ((UNION {AbstractMethods(b) : b \in Bases[c]}) \ Defines[c])

\* Scene.id(): cls.__name__
id(cls) == cls

list_scenes == {c \in ModuleClasses : issubclass(c, "Scene")}

SCENES == [name \in {id(scene) : scene \in list_scenes} |-> name]

DEFAULT_SCENE == "Welcome"

(***************************************************************************)
(* Texts.  A text is a sequence of tokens.                                 *)
(***************************************************************************)
FallbackText == <<"Izvinite, ya vas ne ponyala. Pozhaluysta, poprobuyte pereformulirovat vopros.">>
WelcomeText == <<"Privet! Ya pomogu upravlyat vashimi zadachami v Todoist.">>
WelcomeTts == <<"Privet! Ya pomogu upravlyat vashimi zadachami v Tod+oist.">>

\* sep.join(parts), parts a sequence of texts
RECURSIVE Join(_, _)
Join(parts, sep) ==
    IF parts = <<>> THEN <<>>
    ELSE IF Len(parts) = 1 THEN parts[1]
    ELSE parts[1] \o sep \o Join(Tail(parts), sep)

\* str.upper() of one character
Upper(ch) ==
    CASE ch = "b" -> "B" [] ch = "u" -> "U" [] ch = "y" -> "Y" [] ch = "m" -> "M"
      [] ch = "i" -> "I" [] ch = "l" -> "L" [] ch = "k" -> "K" [] OTHER -> ch

(***************************************************************************)
(* class Scene                                                             *)
(***************************************************************************)
\* make_response naming the default scene instead of the scene that responds
make_response_default(self, text, tts, state) ==
    [k \in {"response", "version", STATE_RESPONSE_KEY} |->
        CASE k = "response" -> [text |-> text, tts |-> IF tts # <<>> THEN tts[1] ELSE text]
          [] k = "version" -> "1.0"
          [] OTHER -> IF state # <<>> THEN DictUpdate([scene |-> DEFAULT_SCENE], state[1])
                      ELSE [scene |-> DEFAULT_SCENE]]

\* tts and state are optional arguments: <<>> is None, <<v>> is the value v;
\* no scene passes card, buttons or directives
make_response(self, text, tts, state) ==
    LET response == [text |-> text, tts |-> IF tts # <<>> THEN tts[1] ELSE text]
        scene_state == [scene |-> id(self)]
    IN  [k \in {"response", "version", STATE_RESPONSE_KEY} |->
            CASE k = "response" -> response
              [] k = "version" -> "1.0"
              [] OTHER -> IF state # <<>> THEN DictUpdate(scene_state, state[1]) ELSE scene_state]

\* a fallback whose text echoes what the turn carried
fallback_echo(self, req) ==
    make_response(self, FallbackText \o (IF req.intents = EmptyDict THEN <<>> ELSE <<"?">>), <<>>, <<>>)

fallback(self, req) == make_response(self, FallbackText, <<>>, <<>>)

\* Welcome, TasksList and CreateTask all define it as `pass`
handle_local_intents(self, req) == None

\* the global rule testing the create-task intent before the list-tasks intent
handle_global_intents_create_first(self, req) ==
    IF Has(req.intents, CREATE_TASK) THEN "CreateTask"
    ELSE IF Has(req.intents, GET_NEAREST_TASKS) THEN "TasksList"
    ELSE None

\* a global rule that also leads back to Welcome, on the next-task intent
handle_global_intents_restart(self, req) ==
    IF Has(req.intents, GET_NEAREST_TASKS) THEN "TasksList"
    ELSE IF Has(req.intents, CREATE_TASK) THEN "CreateTask"
    ELSE IF Has(req.intents, NEXT_TASK) THEN "Welcome"
    ELSE None

\* TodoistScene.handle_global_intents
handle_global_intents(self, req) ==
    IF Has(req.intents, GET_NEAREST_TASKS) THEN "TasksList"
    ELSE IF Has(req.intents, CREATE_TASK) THEN "CreateTask"
    ELSE None

move(self, req) ==
    LET next_scene == handle_local_intents(self, req)
    IN  IF next_scene = None THEN handle_global_intents(self, req) ELSE next_scene

(***************************************************************************)
(* The task backend (todoist_api_python.TodoistAPI) is external: a call    *)
(* either fails with an exception or answers.  api is its answer to the    *)
(* call of this turn: [ok |-> BOOLEAN, n |-> number of tasks it lists].    *)
(***************************************************************************)
TaskContent == <<"T">>

ApiAnswers == {[ok |-> FALSE, n |-> 0]} \cup {[ok |-> TRUE, n |-> k] : k \in 0..MaxTasks}

\* the result of a reply: what it raised or returned, and the backend calls it issued
Returned(resp, calls) == [exc |-> "", val |-> resp, calls |-> calls]
Failed(e, calls) == [exc |-> e, val |-> EmptyDict, calls |-> calls]

Welcome_reply(self, req) == Returned(make_response(self, WelcomeText, <<WelcomeTts>>, <<>>), <<>>)

\* TasksList.reply issuing get_tasks a second time when the first call fails
TasksList_reply_retry(self, req, api) ==
    LET f == TaskFilter_from_request(req, GET_NEAREST_TASKS)
    IN  IF Raised(f) THEN Failed(f.exc, <<>>)
        ELSE IF f.val = None THEN Failed("AttributeError", <<>>)
        ELSE LET get == [op |-> "get_tasks", filter |-> TaskFilterValue[f.val]]
             IN  IF ~api.ok THEN Failed("ApiError", <<get, get>>)
                 ELSE Returned(make_response(self, <<"Seychas u vas ", ToString(api.n), " zadach v spiske:">>,
                                             <<>>, <<>>), <<get>>)

TasksList_reply(self, req, api) ==
    LET f == TaskFilter_from_request(req, GET_NEAREST_TASKS)
    IN  IF Raised(f) THEN Failed(f.exc, <<>>)
        ELSE IF f.val = None THEN Failed("AttributeError", <<>>)
        ELSE LET current_filter == TaskFilterValue[f.val]
                 calls == <<[op |-> "get_tasks", filter |-> current_filter]>>
             IN  IF ~api.ok THEN Failed("ApiError", calls)
                 ELSE LET tasks == [i \in 1..api.n |-> [content |-> TaskContent]]
                          tasks_count == Len(tasks)
                          texts == <<<<"Seychas u vas ", ToString(tasks_count), " zadach v spiske:">>>>
                                   \o [i \in 1..tasks_count |->
                                          <<"\n- ", ToString(i), ": ">> \o tasks[i].content \o <<".">>]
                          text == Join(texts, <<" ">>)
                      IN  Returned(make_response(self, text, <<>>, <<>>), calls)

CreateTask_reply(self, req, now, api) ==
    IF ~Has(req.intents, CREATE_TASK) \/ ~Has(req.intents[CREATE_TASK], "slots")
       \/ ~Has(req.intents[CREATE_TASK].slots, "what")
       \/ ~Has(req.intents[CREATE_TASK].slots.what, "value")
    THEN Failed("KeyError", <<>>)
    ELSE LET what == req.intents[CREATE_TASK].slots.what.value
         IN  IF what = <<>> THEN Failed("IndexError", <<>>)
             ELSE LET task_content == <<Upper(Head(what))>> \o Tail(what)
                      d == Time_from_request_slot(req, CREATE_TASK, "when", now)
                  IN  IF Raised(d) THEN Failed(d.exc, <<>>)
                      ELSE IF d.val = <<>> THEN Failed("AttributeError", <<>>)
                      ELSE LET task_due_date == d.val[1]
                               calls == <<[op |-> "add_task", content |-> task_content,
                                           due_date |-> IsoFormat(task_due_date)]>>
                           IN  IF ~api.ok THEN Failed("ApiError", calls)
                               ELSE LET task == [content |-> task_content]
                                        due_date == <<"na ">> \o Time_make_relative(task_due_date, now)
                                        service_text == Join(<<<<"Sozdala zadachu">>, due_date>>, <<" ">>)
                                        texts == <<service_text \o <<":">>,
                                                   <<"\"">> \o task.content \o <<"\"">>>>
                                        text == Join(texts, <<" ">>)
                                    IN  Returned(make_response(self, text, <<>>, <<>>), calls)

\* self.reply(request) by the class of self
reply(self, req, now, api) ==
    CASE self = "Welcome" -> Welcome_reply(self, req)
      [] self = "TasksList" -> TasksList_reply(self, req, api)
      [] self = "CreateTask" -> CreateTask_reply(self, req, now, api)

(***************************************************************************)
(* handler(event, context)                                                 *)
(*                                                                         *)
(* The outcome of a turn records, besides the returned webhook response or *)
(* the raised exception, the path the handler took: the scene it resolved, *)
(* whether it called move and with what result, the scene and the method   *)
(* (via) that produced the response, and the backend calls issued.         *)
(***************************************************************************)
Outcome(r, current, moved, next, producer, via) ==
    [kind |-> IF r.exc = "" THEN "response" ELSE "raise",
     exc |-> r.exc,
     response |-> r.val,
     current_scene |-> current,
     moved |-> moved,
     next_scene |-> next,
     producer |-> producer,
     via |-> via,
     calls |-> r.calls]

\* request.session.get('scene') defaulting to the default scene's identity
session_scene_defaulted(req) == IF Has(req.session, "scene") THEN req.session.scene ELSE id(DEFAULT_SCENE)

\* request.session.get('scene')
session_scene(req) == IF Has(req.session, "scene") THEN req.session.scene ELSE None

\* SCENES[current_scene_id](): no default for an unknown identity
current_scene_strict(current_scene_id) ==
    IF ~Has(SCENES, current_scene_id) THEN Raise("KeyError")
    ELSE IF AbstractMethods(SCENES[current_scene_id]) # {} THEN Raise("TypeError")
    ELSE Ok(SCENES[current_scene_id])

\* SCENES.get(current_scene_id, DEFAULT_SCENE)(): instantiating a class with
\* abstract methods raises TypeError
current_scene_of(current_scene_id) ==
    LET cls == IF Has(SCENES, current_scene_id) THEN SCENES[current_scene_id] ELSE DEFAULT_SCENE
    IN  IF AbstractMethods(cls) # {} THEN Raise("TypeError") ELSE Ok(cls)

handler(req, now, api) ==
    LET current_scene_id == session_scene(req)
    IN  IF current_scene_id = None
        THEN Outcome(reply(DEFAULT_SCENE, req, now, api), None, FALSE, None, DEFAULT_SCENE, "reply")
        ELSE LET made == current_scene_of(current_scene_id)
             IN  IF Raised(made)
                 THEN Outcome(Failed(made.exc, <<>>), None, FALSE, None, None, "new")
                 ELSE LET current_scene == made.val
                          next_scene == move(current_scene, req)
                      IN  IF next_scene # None
                          THEN Outcome(reply(next_scene, req, now, api),
                                       current_scene, TRUE, next_scene, next_scene, "reply")
                          ELSE Outcome(Returned(fallback(current_scene, req), <<>>),
                                       current_scene, TRUE, None, current_scene, "fallback")

(***************************************************************************)
(* The turns the platform sends.                                           *)
(***************************************************************************)
\* an optional input: <<>> is absent, <<v>> is the value v
Opt(S) == {<<>>} \cup {<<v>> : v \in S}

\* the dict with key k when the optional value is present
Entry(k, o) == IF o = <<>> THEN EmptyDict ELSE [x \in {k} |-> o[1]]

\* values of the `time` slot and of session['time']['value']
TimeValues == {"today", "tomorrow", "week", ""}
SessionTimeValues == {"today", "week"}

BuyMilk == <<"b", "u", "y", " ", "m", "i", "l", "k">>

GetTasksIntents ==
    {[slots |-> Entry("time", t)] : t \in Opt({[value |-> v] : v \in TimeValues})}

\* a slot of another type (its value is never read), and relative YANDEX.DATETIME slots
WhenSlots ==
    {[type |-> "YANDEX.STRING", value |-> [day_is_relative |-> FALSE]]}
    \cup {[type |-> "YANDEX.DATETIME", value |-> [day_is_relative |-> TRUE, day |-> k]] : k \in 1..MaxRelDay}

CreateTaskIntents ==
    {[slots |-> EmptyDict]}
    \cup {[slots |-> DictUpdate([what |-> [value |-> BuyMilk]], Entry("when", w))] : w \in Opt(WhenSlots)}

NextTaskIntents == {[slots |-> EmptyDict]}

IntentsSet ==
    {DictUpdate(DictUpdate(Entry(GET_NEAREST_TASKS, g), Entry(CREATE_TASK, c)), Entry(NEXT_TASK, n)) :
        g \in Opt(GetTasksIntents), c \in Opt(CreateTaskIntents), n \in Opt(NextTaskIntents)}

\* scene identities a session may carry: the registered ones and one that is not
SceneIds == {"Welcome", "TasksList", "CreateTask", "Scene", "TodoistScene", "Bogus"}

\* sessions with and without a scene and a time; a position comes with scene TasksList
SessionSet ==
    LET times == Opt({[value |-> v] : v \in SessionTimeValues})
    IN  {DictUpdate(Entry("scene", sc), Entry("time", t)) : sc \in Opt(SceneIds), t \in times}
        \cup {DictUpdate(DictUpdate([scene |-> "TasksList"], Entry("time", t)), [position |-> [value |-> p]]) :
                 t \in times, p \in 0..MaxPosition}

NoOutcome ==
    [kind |-> "none", exc |-> "", response |-> EmptyDict, current_scene |-> None, moved |-> FALSE,
     next_scene |-> None, producer |-> None, via |-> "none", calls |-> <<>>]

NoCall == [op |-> "none"]

\* SCENES and DEFAULT_SCENE as bound when scenes.py is imported
ModuleState == [SCENES |-> SCENES, DEFAULT_SCENE |-> DEFAULT_SCENE]

\* no invocation under way
NoInvocations == <<>>

Init ==
    /\ request = [session |-> EmptyDict, intents |-> EmptyDict]
    /\ outcome = NoOutcome
    /\ today \in TodaySet
    /\ call = NoCall
    /\ result = Ok(None)
    /\ inv = NoInvocations
    /\ globals = ModuleState

\* one call of handler on the turn (session, intents), the backend answering api
Turn(session, intents, api) ==
    /\ request' = [session |-> session, intents |-> intents]
    /\ outcome' = handler(request', today, api)
    /\ UNCHANGED <<today, call, result, inv, globals>>

\* the first turn of a new session: the platform holds no state
FirstTurn == \E i \in IntentsSet, api \in ApiAnswers : Turn(EmptyDict, i, api)

\* the platform echoes the state block of the previous response
EchoTurn ==
    /\ outcome.kind = "response"
    /\ \E i \in IntentsSet, api \in ApiAnswers : Turn(outcome.response[STATE_RESPONSE_KEY], i, api)

\* a conversation taken up with session state persisted earlier, stale or corrupt
OtherTurn ==
    /\ outcome.kind = "none"
    /\ \E s \in SessionSet, i \in IntentsSet, api \in ApiAnswers : Turn(s, i, api)

Next == FirstTurn \/ EchoTurn \/ OtherTurn

Spec == Init /\ [][Next]_vars

(***************************************************************************)
(* The slot extractors and the date humanizer applied on their own, to     *)
(* arguments drawn from bounded sets.                                      *)
(***************************************************************************)
\* reference dates: around a year's end, inside a year, after a leap day
ExtractTodaySet ==
    TodaySet \cup {ToOrdinal(2026, 12, 30), ToOrdinal(2027, 1, 1), ToOrdinal(2027, 1, 2),
                   ToOrdinal(2027, 1, 12), ToOrdinal(2028, 3, 1)}

DateArgs(now) == ((now - MaxDelta)..(now + MaxDelta)) \cup {now - FarDays, now + FarDays}

\* turns with the list-tasks intent: a time slot and a session time, each optional
FilterRequests ==
    {[session |-> Entry("time", st),
      intents |-> [x \in {GET_NEAREST_TASKS} |-> [slots |-> Entry("time", t)]]] :
        st \in Opt({[value |-> v] : v \in TimeValues}), t \in Opt({[value |-> v] : v \in TimeValues})}

\* sessions with and without a position, a negative one included; the intents vary
PositionRequests ==
    {[session |-> Entry("position", p), intents |-> i] :
        p \in Opt({EmptyDict} \cup {[value |-> v] : v \in (-1)..MaxPosition}),
        i \in {EmptyDict, [x \in {NEXT_TASK} |-> [slots |-> EmptyDict]],
               [x \in {GET_NEAREST_TASKS} |-> [slots |-> [position |-> [value |-> 1]]]]}}

\* YANDEX.DATETIME payloads: every key is optional
DateTimeValues ==
    {DictUpdate(DictUpdate(Entry("day_is_relative", r), Entry("day", d)),
                DictUpdate(Entry("month", m), Entry("year", y))) :
        r \in Opt(BOOLEAN), d \in Opt(((-MaxRelDay)..MaxRelDay) \cup {15, 31}),
        m \in Opt({2}), y \in Opt({2027})}

SlotRequests ==
    {[session |-> EmptyDict,
      intents |-> [x \in {CREATE_TASK} |->
                      [slots |-> [what |-> [value |-> BuyMilk],
                                  when |-> [type |-> "YANDEX.DATETIME", value |-> v]]]]] :
        v \in DateTimeValues}

InitExtract ==
    /\ request = [session |-> EmptyDict, intents |-> EmptyDict]
    /\ outcome = NoOutcome
    /\ today \in ExtractTodaySet
    /\ call = NoCall
    /\ result = Ok(None)
    /\ inv = NoInvocations
    /\ globals = ModuleState

ApplyMakeRelative ==
    /\ \E d \in DateArgs(today) :
          /\ call' = [op |-> "Time.make_relative", absolute_date |-> d]
          /\ result' = Ok(Time_make_relative(d, today))
    /\ request' = [session |-> EmptyDict, intents |-> EmptyDict]
    /\ UNCHANGED <<outcome, today, inv, globals>>

ApplyTaskFilter ==
    /\ \E req \in FilterRequests :
          /\ request' = req
          /\ call' = [op |-> "TaskFilter.from_request"]
          /\ result' = TaskFilter_from_request(req, GET_NEAREST_TASKS)
    /\ UNCHANGED <<outcome, today, inv, globals>>

ApplyTaskPosition ==
    /\ \E req \in PositionRequests :
          /\ request' = req
          /\ call' = [op |-> "TaskPosition.from_request"]
          /\ result' = Ok(move_to_position(req))
    /\ UNCHANGED <<outcome, today, inv, globals>>

ApplyTimeFromSlot ==
    /\ \E req \in SlotRequests :
          /\ request' = req
          /\ call' = [op |-> "Time.from_request_slot"]
          /\ result' = Time_from_request_slot(req, CREATE_TASK, "when", today)
    /\ UNCHANGED <<outcome, today, inv, globals>>

NextExtract == ApplyMakeRelative \/ ApplyTaskFilter \/ ApplyTaskPosition \/ ApplyTimeFromSlot

SpecExtract == InitExtract /\ [][NextExtract]_vars

(***************************************************************************)
(* Two invocations of handler side by side (threads of one process).  An   *)
(* invocation runs handler.py line by line: it resolves the current scene  *)
(* (lines 9-13), moves (line 14) and renders the reply or the fallback     *)
(* (lines 15-20); the steps of the two invocations interleave freely.      *)
(***************************************************************************)
\* the turns of the two invocations
ConcurrentSessions ==
    {EmptyDict, [scene |-> "Welcome"], [scene |-> "TasksList", time |-> [value |-> "today"]],
     [scene |-> "Bogus"]}

ConcurrentIntents ==
    {EmptyDict,
     [x \in {GET_NEAREST_TASKS} |-> [slots |-> EmptyDict]],
     [x \in {GET_NEAREST_TASKS} |-> [slots |-> [time |-> [value |-> "tomorrow"]]]],
     [x \in {CREATE_TASK} |->
         [slots |-> [what |-> [value |-> BuyMilk],
                     when |-> [type |-> "YANDEX.DATETIME",
                               value |-> [day_is_relative |-> TRUE, day |-> MaxRelDay]]]]],
     [x \in {NEXT_TASK} |-> [slots |-> EmptyDict]]}

ConcurrentApi == {[ok |-> FALSE, n |-> 0], [ok |-> TRUE, n |-> MaxTasks]}

Started(req, api) ==
    [pc |-> "start", request |-> req, api |-> api, current_scene |-> None, moved |-> FALSE,
     next_scene |-> None, outcome |-> NoOutcome]

InitConcurrent ==
    /\ request = [session |-> EmptyDict, intents |-> EmptyDict]
    /\ outcome = NoOutcome
    /\ today \in TodaySet
    /\ call = NoCall
    /\ result = Ok(None)
    /\ globals = ModuleState
    /\ \E s1 \in ConcurrentSessions, s2 \in ConcurrentSessions,
          i1 \in ConcurrentIntents, i2 \in ConcurrentIntents,
          a1 \in ConcurrentApi, a2 \in ConcurrentApi :
          inv = <<Started([session |-> s1, intents |-> i1], a1),
                  Started([session |-> s2, intents |-> i2], a2)>>

\* resolving the current scene binding it as the module's default scene
globals_after_resolve_cached(g, cls) == [g EXCEPT !.DEFAULT_SCENE = cls]

\* handler assigns to no module-level name: the module state after it resolved
\* the current scene is the module state before
globals_after_resolve(g, cls) == g

\* SCENES.get(current_scene_id, DEFAULT_SCENE)(), the names read from the module
current_scene_in(g, current_scene_id) ==
    LET cls == IF Has(g.SCENES, current_scene_id) THEN g.SCENES[current_scene_id] ELSE g.DEFAULT_SCENE
    IN  IF AbstractMethods(cls) # {} THEN Raise("TypeError") ELSE Ok(cls)

\* lines 9-13: read the session's scene and make the current scene
Resolve(i) ==
    /\ inv[i].pc = "start"
    /\ LET current_scene_id == session_scene(inv[i].request)
       IN  IF current_scene_id = None
           THEN /\ inv' = [inv EXCEPT ![i].pc = "reply", ![i].next_scene = globals.DEFAULT_SCENE]
                /\ UNCHANGED globals
           ELSE LET made == current_scene_in(globals, current_scene_id)
                IN  IF Raised(made)
                    THEN /\ inv' = [inv EXCEPT ![i].pc = "done",
                                               ![i].outcome = Outcome(Failed(made.exc, <<>>),
                                                                      None, FALSE, None, None, "new")]
                         /\ UNCHANGED globals
                    ELSE /\ inv' = [inv EXCEPT ![i].pc = "move", ![i].current_scene = made.val]
                         /\ globals' = globals_after_resolve(globals, made.val)
    /\ UNCHANGED <<request, outcome, today, call, result>>

\* line 14: next_scene = current_scene.move(request)
Move(i) ==
    /\ inv[i].pc = "move"
    /\ LET next_scene == move(inv[i].current_scene, inv[i].request)
       IN  inv' = [inv EXCEPT ![i].pc = IF next_scene # None THEN "reply" ELSE "fallback",
                              ![i].moved = TRUE,
                              ![i].next_scene = next_scene]
    /\ UNCHANGED <<request, outcome, today, call, result, globals>>

\* lines 12, 17 and 20: render the reply or the fallback and return
Render(i) ==
    /\ inv[i].pc \in {"reply", "fallback"}
    /\ LET me == inv[i]
           out == IF me.pc = "reply"
                  THEN Outcome(reply(me.next_scene, me.request, today, me.api), me.current_scene,
                               me.moved, IF me.moved THEN me.next_scene ELSE None,
                               me.next_scene, "reply")
                  ELSE Outcome(Returned(fallback(me.current_scene, me.request), <<>>),
                               me.current_scene, TRUE, None, me.current_scene, "fallback")
       IN  inv' = [inv EXCEPT ![i].pc = "done", ![i].outcome = out]
    /\ UNCHANGED <<request, outcome, today, call, result, globals>>

NextConcurrent == \E i \in {1, 2} : Resolve(i) \/ Move(i) \/ Render(i)

SpecConcurrent == InitConcurrent /\ [][NextConcurrent]_vars

(***************************************************************************)
(* Properties                                                              *)
(***************************************************************************)
\* the state block of the response of an outcome
StateOf(o) == o.response[STATE_RESPONSE_KEY]
TextOf(o) == o.response.response.text

Handled == outcome.kind # "none"
Responded == outcome.kind = "response"

\* a session scene that names a class that can be instantiated, or no registered class
Resolvable(s) == ~Has(SCENES, s) \/ AbstractMethods(SCENES[s]) = {}

\* C1: every response, from a reply or from a fallback, carries a state block
\* whose scene is present, non-empty and the identity of the scene that produced
\* the response; after a transition it is the next scene's identity and not the
\* previous scene's.
C1_SceneIsProducer ==
    Responded =>
        /\ Has(outcome.response, STATE_RESPONSE_KEY)
        /\ Has(StateOf(outcome), "scene")
        /\ StateOf(outcome).scene # ""
        /\ StateOf(outcome).scene = id(outcome.producer)
        /\ outcome.via \in {"reply", "fallback"}
        /\ outcome.next_scene # None =>
              /\ StateOf(outcome).scene = id(outcome.next_scene)
              /\ outcome.next_scene # outcome.current_scene =>
                    StateOf(outcome).scene # id(outcome.current_scene)

\* a response rendered after a transition from Welcome to TasksList
C1_Witness ==
    /\ Responded
    /\ outcome.current_scene = "Welcome"
    /\ outcome.next_scene = "TasksList"
    /\ StateOf(outcome).scene = "TasksList"

\* C2: on a turn whose session has no scene the handler attempts no transition,
\* whatever the intents, and returns Welcome's reply with scene = Welcome.
C2_FirstTurnIsWelcome ==
    (Handled /\ ~Has(request.session, "scene")) =>
        /\ ~outcome.moved
        /\ outcome.next_scene = None
        /\ Responded
        /\ outcome.via = "reply"
        /\ outcome.producer = DEFAULT_SCENE
        /\ TextOf(outcome) = WelcomeText
        /\ StateOf(outcome).scene = id(DEFAULT_SCENE)

\* a first turn that carries both global intents and is answered with the greeting
C2_Witness ==
    /\ Responded
    /\ ~Has(request.session, "scene")
    /\ Has(request.intents, CREATE_TASK)
    /\ Has(request.intents, GET_NEAREST_TASKS)
    /\ TextOf(outcome) = WelcomeText

ConcreteScenes == {"Welcome", "TasksList", "CreateTask"}

\* C3: for Welcome, TasksList and CreateTask, on a turn on which the local
\* handler returns nothing, move yields TasksList when the turn has the list-tasks
\* intent and CreateTask when it has the create-task intent (and not the
\* list-tasks one), and the handler then renders the reply of that next scene
\* (the backend answering its call).
C3_GlobalTransitionRenders ==
    (/\ Handled
     /\ Has(request.session, "scene")
     /\ request.session.scene \in ConcreteScenes
     /\ handle_local_intents(request.session.scene, request) = None
     /\ outcome.exc # "ApiError") =>
        /\ Has(request.intents, GET_NEAREST_TASKS) =>
              /\ outcome.next_scene = "TasksList"
              /\ Responded /\ outcome.via = "reply" /\ outcome.producer = "TasksList"
        /\ (Has(request.intents, CREATE_TASK) /\ ~Has(request.intents, GET_NEAREST_TASKS)) =>
              /\ outcome.next_scene = "CreateTask"
              /\ Responded /\ outcome.via = "reply" /\ outcome.producer = "CreateTask"

\* C4: whenever neither the local nor the global rule matches, the handler
\* returns the fallback of the current scene, and any other turn with the same
\* session on which neither rule matches gets the same text and the same
\* persisted scene, the identity of the current scene.
C4_FallbackDeterminism ==
    (Handled /\ outcome.moved /\ outcome.next_scene = None) =>
        /\ Responded
        /\ outcome.via = "fallback"
        /\ outcome.producer = outcome.current_scene
        /\ outcome.current_scene =
              (IF Has(SCENES, request.session.scene) THEN request.session.scene ELSE DEFAULT_SCENE)
        /\ StateOf(outcome).scene = id(outcome.current_scene)
        /\ \A i2 \in IntentsSet, api2 \in ApiAnswers :
              LET o2 == handler([session |-> request.session, intents |-> i2], today, api2)
              IN  (o2.moved /\ o2.next_scene = None) =>
                     /\ o2.kind = "response"
                     /\ TextOf(o2) = TextOf(outcome)
                     /\ StateOf(o2).scene = StateOf(outcome).scene

\* TasksList falls back on a turn that carries only the next-task intent
C4_Witness ==
    /\ Responded
    /\ outcome.via = "fallback"
    /\ outcome.current_scene = "TasksList"
    /\ Has(request.intents, NEXT_TASK)

UnknownScene == Has(request.session, "scene") /\ ~Has(SCENES, request.session.scene)

\* C5 as stated: on a turn whose session scene is not in the registry the
\* handler does not raise and returns Welcome's reply.
C5_UnknownSceneGetsWelcomeReply ==
    (Handled /\ UnknownScene) =>
        /\ Responded
        /\ outcome.via = "reply"
        /\ outcome.producer = DEFAULT_SCENE
        /\ TextOf(outcome) = WelcomeText

\* C5 amended: on a turn whose session scene is not in the registry, resolving
\* the current scene does not raise and yields Welcome, and the handler goes on
\* exactly as for session scene "Welcome": Welcome's fallback when no rule
\* matches, the matched scene's reply otherwise.
C5_UnknownSceneResolvesToWelcome ==
    (Handled /\ UnknownScene) =>
        /\ outcome.via # "new"
        /\ outcome.moved
        /\ outcome.current_scene = DEFAULT_SCENE
        /\ \E api \in ApiAnswers :
              outcome = handler([session |-> DictUpdate(request.session, [scene |-> id(DEFAULT_SCENE)]),
                                 intents |-> request.intents], today, api)
        /\ outcome.next_scene = None =>
              /\ Responded
              /\ outcome.via = "fallback"
              /\ TextOf(outcome) = FallbackText
              /\ StateOf(outcome).scene = id(DEFAULT_SCENE)
        /\ outcome.next_scene # None => outcome.via = "reply" /\ outcome.producer = outcome.next_scene

\* an unknown identity with no intent: Welcome's fallback, not its reply
C5_Witness ==
    /\ UnknownScene
    /\ request.intents = EmptyDict
    /\ Responded
    /\ outcome.via = "fallback"
    /\ StateOf(outcome).scene = "Welcome"

\* C6: position round trip: after a TasksList response with persisted position
\* p, a turn that echoes that state and carries the next-task intent yields a
\* TasksList response with persisted position p + 1.
C6_PositionRoundTrip ==
    [][(/\ Responded
        /\ outcome.producer = "TasksList"
        /\ outcome.via = "reply"
        /\ request'.session = StateOf(outcome)
        /\ DOMAIN request'.intents = {NEXT_TASK}) =>
           (/\ outcome'.kind = "response"
            /\ outcome'.producer = "TasksList"
            /\ outcome'.via = "reply"
            /\ Has(StateOf(outcome), "position")
            /\ Has(StateOf(outcome'), "position")
            /\ StateOf(outcome').position.value = StateOf(outcome).position.value + 1)]_vars

\* the filter a turn resolves, None included
ResolvedFilter(req) == TaskFilter_from_request(req, GET_NEAREST_TASKS).val

\* C7: every response of TasksList.reply persists position and the resolved
\* time filter, so that a following turn that echoes the state and names no time
\* slot resolves the same filter.
C7_TasksListPersistsFilter ==
    (Responded /\ outcome.producer = "TasksList" /\ outcome.via = "reply") =>
        /\ Has(StateOf(outcome), "position")
        /\ Has(StateOf(outcome), "time")
        /\ StateOf(outcome).time.value = TaskFilterValue[ResolvedFilter(request)]
        /\ ResolvedFilter([session |-> StateOf(outcome),
                           intents |-> [x \in {GET_NEAREST_TASKS} |-> [slots |-> EmptyDict]]])
              = ResolvedFilter(request)

\* the turn of the end-to-end example: what = "buy milk", when = one day ahead
C8_Intents ==
    [x \in {CREATE_TASK} |->
        [slots |-> [what |-> [value |-> BuyMilk],
                    when |-> [type |-> "YANDEX.DATETIME",
                              value |-> [day_is_relative |-> TRUE, day |-> 1]]]]]

\* the confirmation of task "Buy milk" due tomorrow
C8_Confirmation ==
    <<"Sozdala zadachu", " ", "na ", "zavtra", ":", " ", "\"", "B", "u", "y", " ", "m", "i", "l", "k", "\"">>

\* C8 as stated: the example turn with an empty session yields the created-task
\* confirmation with the phrase for tomorrow and persisted scene CreateTask.
C8_EmptySessionCreatesTask ==
    (Handled /\ request.session = EmptyDict /\ request.intents = C8_Intents) =>
        /\ Responded
        /\ TextOf(outcome) = C8_Confirmation
        /\ StateOf(outcome).scene = "CreateTask"

\* C8 amended: the example turn yields the confirmation with the phrase for
\* tomorrow and persisted scene CreateTask when its session names a current
\* scene that resolves (here as echoed after a response) and the backend call
\* does not fail, the one add_task call carrying the capitalised content and
\* tomorrow's date; with an empty session it yields Welcome's greeting.
C8_CreateTaskEndToEnd ==
    (Handled /\ request.intents = C8_Intents) =>
        IF ~Has(request.session, "scene")
        THEN Responded /\ TextOf(outcome) = WelcomeText /\ StateOf(outcome).scene = "Welcome"
                       /\ outcome.calls = <<>>
        ELSE Resolvable(request.session.scene) =>
                /\ outcome.next_scene = "CreateTask"
                /\ outcome.calls = <<[op |-> "add_task",
                                     content |-> <<"B", "u", "y", " ", "m", "i", "l", "k">>,
                                     due_date |-> IsoFormat(today + 1)]>>
                /\ outcome.exc \in {"", "ApiError"}
                /\ Responded =>
                      /\ TextOf(outcome) = C8_Confirmation
                      /\ outcome.response.response.tts = C8_Confirmation
                      /\ StateOf(outcome).scene = "CreateTask"

\* the example turn, sent with session scene Welcome, is confirmed
C8_Witness ==
    /\ request.intents = C8_Intents
    /\ Has(request.session, "scene")
    /\ request.session.scene = "Welcome"
    /\ Responded
    /\ TextOf(outcome) = C8_Confirmation

\* the `when` slot of the create-task intent is absent or not of a date/time type
NoDueDate ==
    LET slots == request.intents[CREATE_TASK].slots
    IN  Has(slots, "what") /\ (~Has(slots, "when") \/ slots.when.type # "YANDEX.DATETIME")

\* C9: the due date is optional: on a turn that transitions to CreateTask with
\* a `what` slot and no `when` slot, or one of another type, date extraction
\* yields no date without raising and the reply is a confirmation without a
\* due-date phrase, with persisted scene CreateTask.
C9_DueDateOptional ==
    (Handled /\ outcome.next_scene = "CreateTask" /\ NoDueDate) =>
        /\ Time_from_request_slot(request, CREATE_TASK, "when", today) = Ok(<<>>)
        /\ Responded
        /\ StateOf(outcome).scene = "CreateTask"
        /\ \A i \in 1..Len(TextOf(outcome)) : TextOf(outcome)[i] # "na "

\* neither the time slot nor the session names today or tomorrow
UnknownFilter ==
    LET slots == request.intents[GET_NEAREST_TASKS].slots
        known == {"today", "tomorrow"}
    IN  /\ ~(Has(slots, "time") /\ slots.time.value \in known)
        /\ ~(Has(request.session, "time") /\ request.session.time.value \in known)

\* C10: an unknown filter is not fatal: on a turn that transitions to TasksList
\* where neither the time slot nor session['time']['value'] is today or
\* tomorrow, filter extraction yields no filter and TasksList.reply still
\* returns a response, passing no invalid filter to the backend.
C10_UnknownFilterNotFatal ==
    (Handled /\ outcome.next_scene = "TasksList" /\ UnknownFilter /\ outcome.exc # "ApiError") =>
        /\ ResolvedFilter(request) = None
        /\ Responded
        /\ StateOf(outcome).scene = "TasksList"
        /\ \A k \in 1..Len(outcome.calls) : outcome.calls[k].filter \in {"today", "tomorrow"}

\* C11: a failure of the task backend does not crash the turn: whenever the
\* handler issued a backend call it returns a response, and that response is
\* not the fallback of a turn on which no transition matched.
C11_BackendFailureDegrades ==
    (Handled /\ outcome.calls # <<>>) =>
        /\ Responded
        /\ outcome.via # "fallback"
        /\ TextOf(outcome) # FallbackText

\* C14: every identity of the registry names a concrete scene, so whatever
\* string the session carries as scene, resolution yields an instance of
\* Welcome, TasksList or CreateTask and does not raise.
C14_ResolutionYieldsConcreteScene ==
    (Handled /\ Has(request.session, "scene")) =>
        /\ Has(SCENES, request.session.scene) => SCENES[request.session.scene] \in ConcreteScenes
        /\ outcome.exc # "TypeError"
        /\ outcome.via # "new"
        /\ outcome.current_scene \in ConcreteScenes

\* C16: in one turn the handler issues at most one backend call, get_tasks only
\* on a transition to TasksList and add_task only on a transition to CreateTask;
\* a first turn and a fallback issue none, whatever intents the turn carries.
C16_BackendCallsSingleShot ==
    Handled =>
        /\ Len(outcome.calls) <= 1
        /\ \A k \in 1..Len(outcome.calls) :
              /\ outcome.calls[k].op = "get_tasks" => outcome.next_scene = "TasksList"
              /\ outcome.calls[k].op = "add_task" => outcome.next_scene = "CreateTask"
              /\ outcome.calls[k].op \in {"get_tasks", "add_task"}
        /\ (~Has(request.session, "scene") \/ outcome.via = "fallback") => outcome.calls = <<>>

\* the one get_tasks call of a turn failed, and was not repeated
C16_Witness ==
    /\ outcome.exc = "ApiError"
    /\ outcome.next_scene = "TasksList"
    /\ Len(outcome.calls) = 1
    /\ outcome.calls[1].op = "get_tasks"

BothGlobalIntents == Has(request.intents, GET_NEAREST_TASKS) /\ Has(request.intents, CREATE_TASK)

\* C17: when a turn carries both the list-tasks and the create-task intent and
\* the local handler returns nothing, the global transition selects TasksList,
\* never CreateTask, and no task is created on that turn.
C17_ListTasksWins ==
    (/\ Handled
     /\ outcome.moved
     /\ BothGlobalIntents
     /\ handle_local_intents(outcome.current_scene, request) = None) =>
        /\ outcome.next_scene = "TasksList"
        /\ outcome.producer = "TasksList"
        /\ \A k \in 1..Len(outcome.calls) : outcome.calls[k].op # "add_task"

\* a turn with both intents, sent in scene CreateTask, lists the tasks
C17_Witness ==
    /\ BothGlobalIntents
    /\ outcome.current_scene = "CreateTask"
    /\ Responded
    /\ outcome.next_scene = "TasksList"
    /\ outcome.calls = <<[op |-> "get_tasks", filter |-> "today"]>>

AfterWelcome == {"TasksList", "CreateTask"}

\* C15: Welcome is never the target of a transition: the persisted scene of a
\* response is always Welcome, TasksList or CreateTask, and when the platform
\* echoes the state block of a response whose scene is TasksList or CreateTask,
\* the response to that turn again persists TasksList or CreateTask.
C15_WelcomeNeverTarget ==
    /\ [](Responded => StateOf(outcome).scene \in ConcreteScenes)
    /\ [](outcome.moved => outcome.next_scene \in {None} \cup AfterWelcome)
    /\ [][(/\ Responded
           /\ StateOf(outcome).scene \in AfterWelcome
           /\ request'.session = StateOf(outcome)
           /\ outcome'.kind = "response") =>
              StateOf(outcome').scene \in AfterWelcome]_vars

\* the echo of a TasksList response, answered with TasksList's fallback
C15_Witness ==
    /\ request.session = [scene |-> "TasksList"]
    /\ Has(request.intents, NEXT_TASK)
    /\ Responded
    /\ outcome.via = "fallback"
    /\ StateOf(outcome).scene = "TasksList"

\* the day of the month as written, without a leading zero
DayNumber(n) ==
    IF DayOf(n) < 10 THEN <<Digit(DayOf(n))>> ELSE <<Digit(DayOf(n) \div 10), Digit(DayOf(n) % 10)>>

DayMonth(n) == DayNumber(n) \o <<" ", MonthName(MonthOf(n))>>
DayMonthYear(n) == DayMonth(n) \o <<" ">> \o Strftime_Y(n) \o <<" goda">>

\* the boundary table of the date humanizer
BoundaryTable(d, now) ==
    CASE d = now -> <<"segodnya">>
      [] d = now + 1 -> <<"zavtra">>
      [] d = now + 2 -> <<"poslezavtra">>
      [] d = now - 1 -> <<"vchera">>
      [] d = now - 2 -> <<"pozavchera">>
      [] d > now + 2 /\ YearOf(d) = YearOf(now) -> DayMonth(d)
      [] d > now + 2 /\ YearOf(d) # YearOf(now) -> DayMonthYear(d)
      [] d < now - 2 -> DayMonthYear(d)

\* C12: make_relative follows the boundary table for every reference date and
\* every date: the relative words up to two days away, also across a year's
\* end; further in the future the day and month, with the year exactly when the
\* date is in another year; further in the past always day, month and year; and
\* the day number never has a leading zero.
C12_BoundaryTable ==
    call.op = "Time.make_relative" =>
        /\ result.val = BoundaryTable(call.absolute_date, today)
        /\ Head(result.val) # "0"

\* a date earlier in today's year, with a one-digit day, is phrased with its year
C12_Witness ==
    /\ call.op = "Time.make_relative"
    /\ call.absolute_date < today - 2
    /\ YearOf(call.absolute_date) = YearOf(today)
    /\ DayOf(call.absolute_date) < 10
    /\ result.val = DayMonthYear(call.absolute_date)
    /\ Len(result.val) = 9

\* the time slot of the list-tasks intent and the session's time, None when absent
SlotTime ==
    LET slots == request.intents[GET_NEAREST_TASKS].slots
    IN  IF Has(slots, "time") THEN slots.time.value ELSE None
SessionTime == IF Has(request.session, "time") THEN request.session.time.value ELSE None

FilterNamedBy(v) == CASE v = "today" -> "TODAY" [] v = "tomorrow" -> "TOMORROW" [] OTHER -> None

\* C18: filter extraction prefers the turn over the session: it returns the
\* filter the time slot names whenever the slot is present and non-empty, and
\* the one session['time']['value'] names only when the slot is absent or
\* empty; "today" names TODAY and "tomorrow" TOMORROW.
C18_SlotBeforeSession ==
    call.op = "TaskFilter.from_request" =>
        /\ result.exc = ""
        /\ (SlotTime # None /\ SlotTime # "") => result.val = FilterNamedBy(SlotTime)
        /\ (SlotTime = None \/ SlotTime = "") => result.val = FilterNamedBy(SessionTime)
        /\ result.val = "TODAY" => "today" \in {SlotTime, SessionTime}
        /\ result.val = "TOMORROW" => "tomorrow" \in {SlotTime, SessionTime}

\* the slot says tomorrow, the session today: the slot wins
C18_Witness ==
    /\ call.op = "TaskFilter.from_request"
    /\ SlotTime = "tomorrow"
    /\ SessionTime = "today"
    /\ result.val = "TOMORROW"

\* C19: position extraction reads only the session: it returns
\* session['position']['value'] when that is present and a non-negative
\* integer, and 0 in every other case.
C19_PositionNonNegative ==
    call.op = "TaskPosition.from_request" =>
        LET p == GetOrEmpty(request.session, "position")
        IN  result.val = (IF Has(p, "value") /\ p.value >= 0 THEN p.value ELSE 0)

\* the payload of the `when` slot
WhenValue == request.intents[CREATE_TASK].slots.when.value

\* C20: date extraction from a YANDEX.DATETIME slot: when the payload marks the
\* day as relative the result is today plus the payload's day count, negative
\* counts included; otherwise it is the date of the payload's year, month and
\* day, each missing component replaced by today's.
C20_DateExtraction ==
    call.op = "Time.from_request_slot" =>
        LET v == WhenValue
            relative == Has(v, "day_is_relative") /\ v.day_is_relative
            year == IF Has(v, "year") THEN v.year ELSE YearOf(today)
            month == IF Has(v, "month") THEN v.month ELSE MonthOf(today)
            day == IF Has(v, "day") THEN v.day ELSE DayOf(today)
        IN  /\ (relative /\ Has(v, "day")) => result = Ok(<<today + v.day>>)
            /\ (~relative /\ ValidDate(year, month, day)) => result = Ok(<<ToOrdinal(year, month, day)>>)

\* C13: the engine is stateless and reentrant: however the steps of two
\* invocations interleave, the module state stays as imported, and each
\* invocation returns what handler returns for its turn processed alone, which
\* is what the two turns get processed one after the other in either order.
C13_Reentrant ==
    /\ inv # NoInvocations => globals = ModuleState
    /\ \A i \in DOMAIN inv :
          inv[i].pc = "done" => inv[i].outcome = handler(inv[i].request, today, inv[i].api)

\* both invocations have returned: the first, a first turn, with Welcome's
\* greeting, the second, sent in scene TasksList, with the reply of its next scene
C13_Witness ==
    /\ inv # NoInvocations
    /\ inv[1].pc = "done" /\ inv[2].pc = "done"
    /\ ~Has(inv[1].request.session, "scene")
    /\ inv[2].current_scene = "TasksList"
    /\ inv[1].outcome.kind = "response"
    /\ inv[1].outcome.response.response.text = WelcomeText
    /\ inv[2].outcome.kind = "response"
    /\ inv[2].outcome.via = "reply"

====
